---- MODULE Spec2Model ----
(***************************************************************************)
(* In-memory file system (src/FileSystem.cpp): a tree of DirectoryNode and *)
(* FileNode objects held by shared_ptr, and the FileSystem operations      *)
(* mkdir, touch, write, append, read, ls, rm, mv and cp.                   *)
(*                                                                         *)
(* Node objects live in an arena `heap` indexed by object identity.  A     *)
(* path is a sequence of characters, a name a non-empty sequence of        *)
(* characters.  Every operation is one atomic action (the program is       *)
(* single-threaded); the caller makes a call, the outcome of which is in   *)
(* `last` until the caller has taken it (Return) and makes the next call.  *)
(***************************************************************************)
EXTENDS Integers, Sequences, FiniteSets, TLC

VARIABLES heap, root, nextId, now, last, cpSrc, cpNew

vars == <<heap, root, nextId, now, last, cpSrc, cpNew>>

(* ------------------------------ bounds --------------------------------- *)
\* number of node objects ever allocated besides the root
MaxNodes == 4
\* largest value of the clock time(nullptr)
MaxTime == 1
\* number of segments of the generated paths
MaxDepth == 2
\* longest file buffer
MaxData == 2
\* number of node objects ever allocated when every operation is enabled
MaxNodesAll == 2
\* number of node objects ever allocated where copies are followed up
MaxNodesCopy == 3
\* number of node objects ever allocated by the file operations
MaxNodesFile == 3

\* characters of names and of contents
NameChars == {"a", "b"}
DataChars == {"x", "y"}
Sep == "/"

(* --------------------------- basic types ------------------------------- *)
Directory == "Directory"
File == "File"

PermOwner == 6
PermGroup == 4
PermOthers == 4
Permissions == [owner |-> PermOwner, group |-> PermGroup, others |-> PermOthers]

\* outcome kinds; the code throws std::runtime_error with these messages
OK == "OK"
InvalidPath == "InvalidPath"            \* "Path must not be empty ...", "Invalid root parent"
NotFound == "NotFound"                  \* "Path p not found", "name not found", "Src not found"
NotADirectory == "NotADirectory"        \* "p is not a directory", "Path traversed into file ..."
IsADirectory == "IsADirectory"          \* "Can't write to directory", "Can't append to directory", "path is a directory"
AlreadyExists == "AlreadyExists"        \* "name already exists", "Target with same name exists ...", mv "Destination exists"
DestinationExists == "DestinationExists" \* cp "Destination exists ..."
DirectoryNotEmpty == "DirectoryNotEmpty" \* "Directory not empty"
CannotRemoveRoot == "CannotRemoveRoot"  \* "Can't remove root"
CannotMoveRoot == "CannotMoveRoot"      \* "Cannot move root"

NoNode == -1
\* the identity of the object the constructor makes the root
RootId == 0
EmptyMap == [k \in {} |-> NoNode]
RootPath == <<Sep>>

(* ------------------------------ inputs --------------------------------- *)
RECURSIVE SegSeqs(_)
SegSeqs(n) ==
    IF n = 0 THEN {<<>>}
    ELSE LET shorter == SegSeqs(n - 1)
         IN  shorter \cup {Append(s, <<c>>) : s \in {t \in shorter : Len(t) = n - 1}, c \in NameChars}

RECURSIVE Render(_)
Render(segs) ==
    IF segs = <<>> THEN <<>> ELSE <<Sep>> \o Head(segs) \o Render(Tail(segs))

\* the canonical spelling of a sequence of segments ("/" for none)
Canon(segs) == IF segs = <<>> THEN RootPath ELSE Render(segs)

\* the paths "/", "/a", "/a/b", ...
WellFormed == {Canon(s) : s \in SegSeqs(MaxDepth)}

\* these, and for the short ones a trailing separator ("//", "/a/") and a
\* missing leading separator ("", "a")
Paths ==
    WellFormed
      \cup {Canon(s) \o <<Sep>> : s \in {<<>>, <<<<"a">>>>}}
      \cup {Tail(Canon(s)) : s \in {<<>>, <<<<"a">>>>}}

Contents == {<<c>> : c \in DataChars}
OneContent == {<<"x">>}

(* --------------------------- path parser ------------------------------- *)
RECURSIVE splitFrom(_, _, _, _)
splitFrom(path, i, parts, curr) ==
    IF i > Len(path)
    THEN IF curr # <<>> THEN Append(parts, curr) ELSE parts
    ELSE IF path[i] = Sep
         THEN IF curr # <<>>
              THEN splitFrom(path, i + 1, Append(parts, curr), <<>>)
              ELSE splitFrom(path, i + 1, parts, curr)
         ELSE splitFrom(path, i + 1, parts, Append(curr, path[i]))

splitPath(path) == splitFrom(path, 1, <<>>, <<>>)

(* ------------------------------- nodes --------------------------------- *)
\* INode(name, t): created = modified = time(nullptr)
INode(name, t) ==
    [name |-> name, type |-> t, perms |-> Permissions,
     created |-> now, modified |-> now, children |-> EmptyMap, data |-> <<>>]

DirectoryNode(name) == INode(name, Directory)
FileNode(name) == INode(name, File)

hasChild(h, d, n) == n \in DOMAIN h[d].children

getChild(h, d, n) == IF n \in DOMAIN h[d].children THEN h[d].children[n] ELSE NoNode

addChild(h, d, n, node) ==
    [h EXCEPT ![d].children = [k \in DOMAIN @ \cup {n} |-> IF k = n THEN node ELSE @[k]],
              ![d].modified = now]

removeChild(h, d, n) ==
    [h EXCEPT ![d].children = [k \in DOMAIN @ \ {n} |-> @[k]],
              ![d].modified = now]

\* the heap with one more object
Alloc(h, id, node) == [k \in DOMAIN h \cup {id} |-> IF k = id THEN node ELSE h[k]]

\* an assignment to node->name that is left out
setName_omitted(h, id, n) == h

setName(h, id, n) == [h EXCEPT ![id].name = n]

\* shared_ptr ownership: an object nothing points to is destroyed, and so
\* are its children when that drops their last reference
Referenced(h) == UNION {{h[m].children[k] : k \in DOMAIN h[m].children} : m \in DOMAIN h}

RECURSIVE Release(_)
Release(h) ==
    LET dead == {n \in DOMAIN h : n # root /\ n \notin Referenced(h)}
    IN  IF dead = {} THEN h ELSE Release([k \in DOMAIN h \ dead |-> h[k]])

(* ------------------------ resolution primitives ------------------------ *)
Malformed(path) == path = <<>> \/ path[1] # Sep

\* walkParent without the check that an intermediate node is a Directory
RECURSIVE walkParent_unchecked(_, _, _, _)
walkParent_unchecked(h, parts, i, curr) ==
    IF i > Len(parts) - 1
    THEN [err |-> OK, parent |-> curr, name |-> parts[Len(parts)]]
    ELSE LET child == getChild(h, curr, parts[i])
         IN  IF child = NoNode
             THEN [err |-> NotFound, parent |-> NoNode, name |-> <<>>]
             ELSE walkParent_unchecked(h, parts, i + 1, child)

RECURSIVE walkParent(_, _, _, _)
walkParent(h, parts, i, curr) ==
    IF i > Len(parts) - 1
    THEN [err |-> OK, parent |-> curr, name |-> parts[Len(parts)]]
    ELSE LET child == getChild(h, curr, parts[i])
         IN  IF child = NoNode
             THEN [err |-> NotFound, parent |-> NoNode, name |-> <<>>]
             ELSE IF h[child].type # Directory
                  THEN [err |-> NotADirectory, parent |-> NoNode, name |-> <<>>]
                  ELSE walkParent(h, parts, i + 1, child)

resolveParent(h, path) ==
    IF Malformed(path)
    THEN [err |-> InvalidPath, parent |-> NoNode, name |-> <<>>]
    ELSE LET parts == splitPath(path)
         IN  IF parts = <<>>
             THEN [err |-> InvalidPath, parent |-> NoNode, name |-> <<>>]
             ELSE walkParent(h, parts, 1, root)

RECURSIVE walkNode(_, _, _, _)
walkNode(h, parts, i, curr) ==
    IF i > Len(parts)
    THEN [err |-> OK, node |-> curr]
    ELSE IF h[curr].type # Directory
         THEN [err |-> NotADirectory, node |-> NoNode]
         ELSE LET child == getChild(h, curr, parts[i])
              IN  IF child = NoNode
                  THEN [err |-> NotFound, node |-> NoNode]
                  ELSE walkNode(h, parts, i + 1, child)

traverseNode(h, path) ==
    IF path = RootPath
    THEN [err |-> OK, node |-> root]
    ELSE IF Malformed(path)
         THEN [err |-> InvalidPath, node |-> NoNode]
         ELSE walkNode(h, splitPath(path), 1, root)

(* ------------------------------ deep copy ------------------------------ *)
\* FileNode::cloneShallow: a new object with the metadata and the buffer
cloneShallow(h, src) ==
    [FileNode(h[src].name) EXCEPT !.perms = h[src].perms,
                                  !.created = h[src].created,
                                  !.modified = h[src].modified,
                                  !.data = h[src].data]

\* the result of a copy: the heap with the new objects, the next free
\* identity and the identity of the copy
RECURSIVE deepCopyNode(_, _, _)
RECURSIVE copyChildren(_, _, _, _, _)
\* copyChildren that hands the copy the child objects of the source
copyChildren_shared(h, nxt, newDir, srcDir, keys) ==
    [heap |-> [h EXCEPT ![newDir].children = h[srcDir].children,
                        ![newDir].modified = IF keys = {} THEN @ ELSE now],
     nxt |-> nxt, node |-> newDir]

copyChildren(h, nxt, newDir, srcDir, keys) ==
    IF keys = {}
    THEN [heap |-> h, nxt |-> nxt, node |-> newDir]
    ELSE LET k == CHOOSE x \in keys : TRUE
             c == deepCopyNode(h, nxt, h[srcDir].children[k])
             named == setName(c.heap, c.node, k)
         IN  copyChildren(addChild(named, newDir, k, c.node), c.nxt, newDir, srcDir, keys \ {k})

\* deepCopyNode that leaves the children of a Directory out
deepCopyNode_shallow(h, nxt, src) ==
    [heap |-> Alloc(h, nxt, [cloneShallow(h, src) EXCEPT !.type = h[src].type]),
     nxt |-> nxt + 1, node |-> nxt]

deepCopyNode(h, nxt, src) ==
    IF h[src].type = File
    THEN [heap |-> Alloc(h, nxt, cloneShallow(h, src)), nxt |-> nxt + 1, node |-> nxt]
    ELSE LET newDir == [DirectoryNode(h[src].name) EXCEPT !.perms = h[src].perms,
                                                         !.created = h[src].created,
                                                         !.modified = h[src].modified]
         IN  copyChildren(Alloc(h, nxt, newDir), nxt + 1, nxt, src, DOMAIN h[src].children)

(* ----------------------------- operations ------------------------------ *)
\* an operation's outcome: the error kind thrown (or OK), the heap and the
\* next free identity it leaves, the value it returns and, for append, the
\* number of times append was entered
Fail(h, nxt, e) == [err |-> e, heap |-> h, nxt |-> nxt, out |-> <<>>, calls |-> 0]
Done(h, nxt, out) == [err |-> OK, heap |-> h, nxt |-> nxt, out |-> out, calls |-> 0]

\* mkdir without the check for an existing child
mkdir_overwriting(h, nxt, path) ==
    LET rp == resolveParent(h, path)
    IN  IF rp.err # OK THEN Fail(h, nxt, rp.err)
        ELSE Done(addChild(Alloc(h, nxt, DirectoryNode(rp.name)), rp.parent, rp.name, nxt),
                  nxt + 1, <<>>)

mkdir(h, nxt, path) ==
    LET rp == resolveParent(h, path)
    IN  IF rp.err # OK THEN Fail(h, nxt, rp.err)
        ELSE IF hasChild(h, rp.parent, rp.name) THEN Fail(h, nxt, AlreadyExists)
        ELSE Done(addChild(Alloc(h, nxt, DirectoryNode(rp.name)), rp.parent, rp.name, nxt),
                  nxt + 1, <<>>)

\* touch that makes a Directory where it should make a File
touch_directory(h, nxt, path) ==
    LET rp == resolveParent(h, path)
    IN  IF rp.err # OK THEN Fail(h, nxt, rp.err)
        ELSE IF hasChild(h, rp.parent, rp.name) THEN Fail(h, nxt, AlreadyExists)
        ELSE Done(addChild(Alloc(h, nxt, DirectoryNode(rp.name)), rp.parent, rp.name, nxt),
                  nxt + 1, <<>>)

touch(h, nxt, path) ==
    LET rp == resolveParent(h, path)
    IN  IF rp.err # OK THEN Fail(h, nxt, rp.err)
        ELSE IF hasChild(h, rp.parent, rp.name) THEN Fail(h, nxt, AlreadyExists)
        ELSE Done(addChild(Alloc(h, nxt, FileNode(rp.name)), rp.parent, rp.name, nxt),
                  nxt + 1, <<>>)

\* the catch block of write, creating the File with an empty buffer
writeCreate_empty(h, nxt, path, content) ==
    LET rp == resolveParent(h, path)
    IN  IF rp.err # OK THEN Fail(h, nxt, rp.err)
        ELSE Done(addChild(Alloc(h, nxt, FileNode(rp.name)), rp.parent, rp.name, nxt),
                  nxt + 1, <<>>)

\* the catch block of write: "create file if path not found"
writeCreate(h, nxt, path, content) ==
    LET rp == resolveParent(h, path)
    IN  IF rp.err # OK THEN Fail(h, nxt, rp.err)
        ELSE LET file == [FileNode(rp.name) EXCEPT !.data = content]
             IN  Done(addChild(Alloc(h, nxt, file), rp.parent, rp.name, nxt), nxt + 1, <<>>)

\* write that adds the content to the buffer of an existing File
write_appending(h, nxt, path, content) ==
    LET t == traverseNode(h, path)
    IN  IF t.err = OK /\ h[t.node].type = File
        THEN Done([h EXCEPT ![t.node].data = @ \o content, ![t.node].modified = now], nxt, <<>>)
        ELSE writeCreate(h, nxt, path, content)

\* every std::runtime_error of the try block, the "Can't write to
\* directory" one included, lands in the catch block
write(h, nxt, path, content) ==
    LET t == traverseNode(h, path)
    IN  IF t.err = OK /\ h[t.node].type = File
        THEN Done([h EXCEPT ![t.node].data = content, ![t.node].modified = now], nxt, <<>>)
        ELSE writeCreate(h, nxt, path, content)

\* catch (...) { touch(path); append(path, content); }
RECURSIVE appendFrom(_, _, _, _, _)
appendFrom(h, nxt, path, content, calls) ==
    LET t == traverseNode(h, path)
    IN  IF t.err = OK /\ h[t.node].type = File
        THEN [Done([h EXCEPT ![t.node].data = @ \o content, ![t.node].modified = now],
                   nxt, <<>>) EXCEPT !.calls = calls]
        ELSE LET c == touch(h, nxt, path)
             IN  IF c.err # OK THEN [c EXCEPT !.calls = calls]
                 ELSE appendFrom(c.heap, c.nxt, path, content, calls + 1)

\* append that replaces the buffer of an existing File
append_replacing(h, nxt, path, content) ==
    LET t == traverseNode(h, path)
    IN  IF t.err = OK /\ h[t.node].type = File
        THEN [Done([h EXCEPT ![t.node].data = content, ![t.node].modified = now],
                   nxt, <<>>) EXCEPT !.calls = 1]
        ELSE appendFrom(h, nxt, path, content, 1)

append(h, nxt, path, content) == appendFrom(h, nxt, path, content, 1)

read(h, nxt, path) ==
    LET t == traverseNode(h, path)
    IN  IF t.err # OK THEN Fail(h, nxt, t.err)
        ELSE IF h[t.node].type # File THEN Fail(h, nxt, IsADirectory)
        ELSE Done(h, nxt, h[t.node].data)

\* operator< of std::string: by character code, a prefix first
CharCode(c) == CASE c = "/" -> 47 [] c = "a" -> 97 [] c = "b" -> 98 [] c = "x" -> 120 [] c = "y" -> 121

RECURSIVE NameLess(_, _)
NameLess(a, b) ==
    IF a = <<>> THEN b # <<>>
    ELSE IF b = <<>> THEN FALSE
    ELSE IF Head(a) = Head(b) THEN NameLess(Tail(a), Tail(b))
    ELSE CharCode(Head(a)) < CharCode(Head(b))

\* the keys in descending order
RECURSIVE sorted_descending(_)
sorted_descending(keys) ==
    IF keys = {} THEN <<>>
    ELSE LET most == CHOOSE k \in keys : \A o \in keys \ {k} : NameLess(o, k)
         IN  <<most>> \o sorted_descending(keys \ {most})

\* DirectoryNode::listNames: the keys, sorted
RECURSIVE sorted(_)
sorted(keys) ==
    IF keys = {} THEN <<>>
    ELSE LET least == CHOOSE k \in keys : \A o \in keys \ {k} : NameLess(k, o)
         IN  <<least>> \o sorted(keys \ {least})

listNames(h, d) == sorted(DOMAIN h[d].children)

ls(h, nxt, path) ==
    LET t == traverseNode(h, path)
    IN  IF t.err # OK THEN Fail(h, nxt, t.err)
        ELSE IF h[t.node].type = File THEN Done(h, nxt, <<h[t.node].name>>)
        ELSE Done(h, nxt, listNames(h, t.node))

\* rm that removes a Directory with children whatever `recursive` says
rm_forced(h, nxt, path, recursive) ==
    IF path = RootPath THEN Fail(h, nxt, CannotRemoveRoot)
    ELSE LET rp == resolveParent(h, path)
         IN  IF rp.err # OK THEN Fail(h, nxt, rp.err)
             ELSE IF getChild(h, rp.parent, rp.name) = NoNode THEN Fail(h, nxt, NotFound)
             ELSE Done(removeChild(h, rp.parent, rp.name), nxt, <<>>)

\* rm without the check for the root path
rm_unguarded(h, nxt, path, recursive) ==
    LET rp == resolveParent(h, path)
    IN  IF rp.err # OK THEN Fail(h, nxt, rp.err)
        ELSE LET node == getChild(h, rp.parent, rp.name)
             IN  IF node = NoNode THEN Fail(h, nxt, NotFound)
                 ELSE IF h[node].type = Directory /\ DOMAIN h[node].children # {} /\ ~recursive
                      THEN Fail(h, nxt, DirectoryNotEmpty)
                      ELSE Done(removeChild(h, rp.parent, rp.name), nxt, <<>>)

rm(h, nxt, path, recursive) ==
    IF path = RootPath THEN Fail(h, nxt, CannotRemoveRoot)
    ELSE LET rp == resolveParent(h, path)
         IN  IF rp.err # OK THEN Fail(h, nxt, rp.err)
             ELSE LET node == getChild(h, rp.parent, rp.name)
                  IN  IF node = NoNode THEN Fail(h, nxt, NotFound)
                      ELSE IF h[node].type = Directory /\ DOMAIN h[node].children # {} /\ ~recursive
                           THEN Fail(h, nxt, DirectoryNotEmpty)
                           ELSE Done(removeChild(h, rp.parent, rp.name), nxt, <<>>)

\* the catch block of mv, detaching the source before it looks at dest
mvCatch_detachFirst(h, nxt, srcParent, srcName, node, dest) ==
    LET h1 == removeChild(h, srcParent, srcName)
        rp == resolveParent(h1, dest)
    IN  IF rp.err # OK THEN Fail(h1, nxt, rp.err)
        ELSE IF hasChild(h1, rp.parent, rp.name) THEN Fail(h1, nxt, AlreadyExists)
        ELSE Done(addChild(setName(h1, node, rp.name), rp.parent, rp.name, node), nxt, <<>>)

\* the catch block of mv: "dest does not exist"
mvCatch(h, nxt, srcParent, srcName, node, dest) ==
    LET rp == resolveParent(h, dest)
    IN  IF rp.err # OK THEN Fail(h, nxt, rp.err)
        ELSE IF hasChild(h, rp.parent, rp.name) THEN Fail(h, nxt, AlreadyExists)
        ELSE LET h1 == removeChild(h, srcParent, srcName)
                 h2 == setName(h1, node, rp.name)
             IN  Done(addChild(h2, rp.parent, rp.name, node), nxt, <<>>)

\* the try block of mv when dest resolves to a Directory
mvIntoDir(h, nxt, srcParent, srcName, node, destDir, dest) ==
    IF hasChild(h, destDir, srcName)
    THEN mvCatch(h, nxt, srcParent, srcName, node, dest)
    ELSE LET h1 == removeChild(h, srcParent, srcName)
             h2 == addChild(h1, destDir, srcName, node)
         IN  Done(setName(h2, node, srcName), nxt, <<>>)

\* the try block of mv when dest resolves to a File: "replace file"
mvOntoFile(h, nxt, srcParent, srcName, node, dest) ==
    LET rp == resolveParent(h, dest)
    IN  IF rp.err # OK THEN mvCatch(h, nxt, srcParent, srcName, node, dest)
        ELSE LET h1 == removeChild(h, rp.parent, rp.name)
                 h2 == removeChild(h1, srcParent, srcName)
                 h3 == setName(h2, node, rp.name)
             IN  Done(addChild(h3, rp.parent, rp.name, node), nxt, <<>>)

mv(h, nxt, src, dest) ==
    IF src = RootPath THEN Fail(h, nxt, CannotMoveRoot)
    ELSE LET sp == resolveParent(h, src)
         IN  IF sp.err # OK THEN Fail(h, nxt, sp.err)
             ELSE LET node == getChild(h, sp.parent, sp.name)
                      t == traverseNode(h, dest)
                  IN  IF node = NoNode THEN Fail(h, nxt, NotFound)
                      ELSE IF t.err # OK THEN mvCatch(h, nxt, sp.parent, sp.name, node, dest)
                      ELSE IF h[t.node].type = Directory
                           THEN mvIntoDir(h, nxt, sp.parent, sp.name, node, t.node, dest)
                           ELSE mvOntoFile(h, nxt, sp.parent, sp.name, node, dest)

\* the catch block of cp without the check for an existing child
cpCatch_overwriting(h, nxt, node, dest) ==
    LET rp == resolveParent(h, dest)
    IN  IF rp.err # OK THEN Fail(h, nxt, rp.err)
        ELSE LET c == deepCopyNode(h, nxt, node)
                 h1 == setName(c.heap, c.node, rp.name)
             IN  [Done(addChild(h1, rp.parent, h1[c.node].name, c.node), c.nxt, <<>>)
                    EXCEPT !.out = <<c.node>>]

\* the catch block of cp: "dest does not exist"
cpCatch(h, nxt, node, dest) ==
    LET rp == resolveParent(h, dest)
    IN  IF rp.err # OK THEN Fail(h, nxt, rp.err)
        ELSE IF hasChild(h, rp.parent, rp.name) THEN Fail(h, nxt, DestinationExists)
        ELSE LET c == deepCopyNode(h, nxt, node)
                 h1 == setName(c.heap, c.node, rp.name)
             IN  [Done(addChild(h1, rp.parent, h1[c.node].name, c.node), c.nxt, <<>>)
                    EXCEPT !.out = <<c.node>>]

\* the try block of cp when dest resolves to a Directory
cpIntoDir(h, nxt, node, destDir, dest) ==
    IF hasChild(h, destDir, h[node].name)
    THEN cpCatch(h, nxt, node, dest)
    ELSE LET c == deepCopyNode(h, nxt, node)
             h1 == addChild(c.heap, destDir, c.heap[c.node].name, c.node)
         IN  [Done(setName(h1, c.node, h[node].name), c.nxt, <<>>) EXCEPT !.out = <<c.node>>]

\* a successful cp returns nothing; `out` carries the identity of the copy
\* for the bookkeeping of the properties
cp(h, nxt, src, dest) ==
    LET s == traverseNode(h, src)
    IN  IF s.err # OK THEN Fail(h, nxt, s.err)
        ELSE LET t == traverseNode(h, dest)
             IN  IF t.err = OK /\ h[t.node].type = Directory
                 THEN cpIntoDir(h, nxt, s.node, t.node, dest)
                 ELSE cpCatch(h, nxt, s.node, dest)

(* ------------------------------ reachability --------------------------- *)
\* the objects below a node, the node included
RECURSIVE Below(_, _, _)
Below(h, frontier, seen) ==
    LET next == UNION {{h[d].children[k] : k \in DOMAIN h[d].children} : d \in frontier} \ seen
    IN  IF next = {} THEN seen ELSE Below(h, next, seen \cup next)

Subtree(h, n) == Below(h, {n}, {n})

(* ------------------------------- actions ------------------------------- *)
\* no call is in progress and no outcome is waiting for the caller
Idle == [op |-> "idle", path |-> <<>>, arg |-> <<>>, err |-> OK, out |-> <<>>, calls |-> 0]

Outcome(op, path, arg, r) ==
    [op |-> op, path |-> path, arg |-> arg, err |-> r.err, out |-> r.out, calls |-> r.calls]

\* the state after an operation with outcome r; the model stops allocating
\* at maxNodes objects and growing buffers at MaxData characters
Commit(op, path, arg, r, maxNodes) ==
    /\ last = Idle
    /\ r.nxt <= maxNodes + 1
    /\ \A n \in DOMAIN r.heap : Len(r.heap[n].data) <= MaxData
    /\ heap' = Release(r.heap)
    /\ nextId' = r.nxt
    /\ last' = Outcome(op, path, arg, r)
    /\ UNCHANGED <<root, now>>

Init ==
    /\ now = 0
    /\ root = RootId
    /\ heap = [n \in {RootId} |-> DirectoryNode(RootPath)]
    /\ nextId = 1
    /\ last = Idle
    /\ cpSrc = NoNode
    /\ cpNew = NoNode

\* time(nullptr) advances between calls
Tick ==
    /\ last = Idle
    /\ now < MaxTime
    /\ now' = now + 1
    /\ UNCHANGED <<heap, root, nextId, last, cpSrc, cpNew>>

\* the caller takes the outcome of its call
Return ==
    /\ last # Idle
    /\ last' = Idle
    /\ UNCHANGED <<heap, root, nextId, now, cpSrc, cpNew>>

MkdirOp(paths, maxNodes) ==
    \E p \in paths :
        /\ Commit("mkdir", p, <<>>, mkdir(heap, nextId, p), maxNodes)
        /\ UNCHANGED <<cpSrc, cpNew>>

TouchOp(paths, maxNodes) ==
    \E p \in paths :
        /\ Commit("touch", p, <<>>, touch(heap, nextId, p), maxNodes)
        /\ UNCHANGED <<cpSrc, cpNew>>

WriteOp(paths, contents, maxNodes) ==
    \E p \in paths, c \in contents :
        /\ Commit("write", p, c, write(heap, nextId, p, c), maxNodes)
        /\ UNCHANGED <<cpSrc, cpNew>>

AppendOp(paths, contents, maxNodes) ==
    \E p \in paths, c \in contents :
        /\ Commit("append", p, c, append(heap, nextId, p, c), maxNodes)
        /\ UNCHANGED <<cpSrc, cpNew>>

ReadOp(paths) ==
    \E p \in paths :
        /\ Commit("read", p, <<>>, read(heap, nextId, p), MaxNodes)
        /\ UNCHANGED <<cpSrc, cpNew>>

LsOp(paths) ==
    \E p \in paths :
        /\ Commit("ls", p, <<>>, ls(heap, nextId, p), MaxNodes)
        /\ UNCHANGED <<cpSrc, cpNew>>

RmOp(paths) ==
    \E p \in paths, recursive \in BOOLEAN :
        /\ Commit("rm", p, recursive, rm(heap, nextId, p, recursive), MaxNodes)
        /\ UNCHANGED <<cpSrc, cpNew>>

MvOp(paths) ==
    \E p \in paths, d \in paths :
        /\ Commit("mv", p, d, mv(heap, nextId, p, d), MaxNodes)
        /\ UNCHANGED <<cpSrc, cpNew>>

\* with `track`, cpSrc and cpNew remember the source object and the copy
\* of the latest successful cp
CpOp(paths, maxNodes, track) ==
    \E p \in paths, d \in paths :
        LET r == cp(heap, nextId, p, d)
        IN  /\ Commit("cp", p, d, r, maxNodes)
            /\ IF track /\ r.err = OK
               THEN /\ cpSrc' = traverseNode(heap, p).node
                    /\ cpNew' = r.out[1]
               ELSE UNCHANGED <<cpSrc, cpNew>>

(* ------------- the whole interface, on small trees ------------- *)
Mkdir == MkdirOp(Paths, MaxNodesAll)
Touch == TouchOp(Paths, MaxNodesAll)
Write == WriteOp(Paths, OneContent, MaxNodesAll)
AppendTo == AppendOp(Paths, OneContent, MaxNodesAll)
Read == ReadOp(Paths)
Ls == LsOp(Paths)
Rm == RmOp(Paths)
Mv == MvOp(Paths)
Cp == CpOp(Paths, MaxNodesAll, FALSE)

Next ==
    \/ Tick
    \/ Return
    \/ Mkdir
    \/ Touch
    \/ Write
    \/ AppendTo
    \/ Read
    \/ Ls
    \/ Rm
    \/ Mv
    \/ Cp

Spec == Init /\ [][Next]_vars

(* ------------- creating, writing and reading files ------------- *)
FileMkdir == MkdirOp(Paths, MaxNodesFile)
FileTouch == TouchOp(Paths, MaxNodesFile)
FileWrite == WriteOp(Paths, Contents, MaxNodesFile)
FileAppend == AppendOp(Paths, Contents, MaxNodesFile)
FileRead == ReadOp(Paths)

NextFile ==
    \/ Tick
    \/ Return
    \/ FileMkdir
    \/ FileTouch
    \/ FileWrite
    \/ FileAppend
    \/ FileRead

SpecFile == Init /\ [][NextFile]_vars

(* ------ one copy, and changes of the source and of the copy ------ *)
CopyMkdir == MkdirOp(WellFormed, MaxNodesCopy)
CopyTouch == TouchOp(WellFormed, MaxNodesCopy)
CopyWrite == WriteOp(WellFormed, OneContent, MaxNodesCopy)
CopyAppend == AppendOp(WellFormed, OneContent, MaxNodesCopy)
CopyRm == RmOp(WellFormed)
CopyMv == MvOp(WellFormed)
CopyCp == cpNew = NoNode /\ CpOp(WellFormed, MaxNodesCopy, TRUE)

NextCopy ==
    \/ Return
    \/ CopyMkdir
    \/ CopyTouch
    \/ CopyWrite
    \/ CopyAppend
    \/ CopyRm
    \/ CopyMv
    \/ CopyCp

SpecCopy == Init /\ [][NextCopy]_vars

(* ------------- copying at different times ------------- *)
MetaMkdir == MkdirOp(WellFormed, MaxNodes)
MetaTouch == TouchOp(WellFormed, MaxNodes)
MetaCp == CpOp(WellFormed, MaxNodes, FALSE)

NextMeta ==
    \/ Tick
    \/ Return
    \/ MetaMkdir
    \/ MetaTouch
    \/ MetaCp

SpecMeta == Init /\ [][NextMeta]_vars

(* ------------------------------ properties ----------------------------- *)
\* a call has just returned: `heap` is the tree before it, heap' the tree
\* after it and last' its outcome
Called(op) == last = Idle /\ last'.op = op

\* the object a path resolves to, or NoNode
NodeAt(h, path) == LET t == traverseNode(h, path) IN IF t.err = OK THEN t.node ELSE NoNode

IsDirAt(h, path) == NodeAt(h, path) # NoNode /\ h[NodeAt(h, path)].type = Directory
IsFileAt(h, path) == NodeAt(h, path) # NoNode /\ h[NodeAt(h, path)].type = File

\* C1: write on a path that resolves to a Directory fails with IsADirectory,
\* and afterwards the path resolves to the same Directory object, unchanged.
C1_WriteOnDirectoryRefused ==
    [][(Called("write") /\ IsDirAt(heap, last'.path)) =>
          /\ last'.err = IsADirectory
          /\ NodeAt(heap', last'.path) = NodeAt(heap, last'.path)
          /\ heap'[NodeAt(heap, last'.path)] = heap[NodeAt(heap, last'.path)]]_vars

\* C2: after a successful mv(src, dst) whose dst was no existing Directory,
\* src does not resolve (NotFound) and dst resolves to the object that was at
\* src, unchanged but for its name.
C2_MoveIdentity ==
    [][(Called("mv") /\ last'.err = OK /\ ~IsDirAt(heap, last'.arg)) =>
          LET node == NodeAt(heap, last'.path)
          IN  /\ traverseNode(heap', last'.path).err = NotFound
              /\ NodeAt(heap', last'.arg) = node
              /\ node \in DOMAIN heap'
              /\ heap'[node] = [heap[node] EXCEPT !.name = heap'[node].name]]_vars

\* content and children of a subtree, by value: what read and ls show of it
RECURSIVE TreeValue(_, _, _)
TreeValue(h, n, seen) ==
    IF n \notin DOMAIN h THEN "gone"
    ELSE IF n \in seen THEN "cycle"
    ELSE [type |-> h[n].type,
          data |-> h[n].data,
          children |-> [k \in DOMAIN h[n].children |->
                           TreeValue(h, h[n].children[k], seen \cup {n})]]

\* the directories whose child mapping a call of a mutating operation looks
\* its target up in, and the existing objects it names
Places(h, o) ==
    LET rp == resolveParent(h, o.path)
        here == IF rp.err = OK THEN {rp.parent} ELSE {}
    IN  IF o.op # "mv" THEN here
        ELSE IF IsDirAt(h, o.arg) THEN here \cup {NodeAt(h, o.arg)}
        ELSE LET dp == resolveParent(h, o.arg)
             IN  here \cup (IF dp.err = OK THEN {dp.parent} ELSE {})

Targets(h, o) ==
    LET rp == resolveParent(h, o.path)
        named == IF rp.err = OK THEN {getChild(h, rp.parent, rp.name)} \ {NoNode} ELSE {}
    IN  IF o.op = "mv" /\ IsFileAt(h, o.arg) THEN named \cup {NodeAt(h, o.arg)} ELSE named

Mutators == {"write", "append", "mkdir", "touch", "rm", "mv"}

\* the call o works in the subtree of `mine` and outside that of `other`,
\* and names neither `other` nor a directory that holds it
AppliedTo(h, o, mine, other) ==
    /\ o.op \in Mutators
    /\ o.err = OK
    /\ {mine, other} \subseteq Subtree(h, root)
    /\ Places(h, o) # {}
    /\ Places(h, o) \subseteq Subtree(h, mine) \ Subtree(h, other)
    /\ \A t \in Targets(h, o) : other \notin Subtree(h, t)

RECURSIVE SameMetadata(_, _, _, _)
SameMetadata(h, src, g, copy) ==
    /\ g[copy].perms = h[src].perms
    /\ g[copy].created = h[src].created
    /\ g[copy].modified = h[src].modified
    /\ DOMAIN g[copy].children = DOMAIN h[src].children
    /\ \A k \in DOMAIN h[src].children :
          SameMetadata(h, h[src].children[k], g, g[copy].children[k])

\* C4: right after a successful cp every object of the copy has the
\* permissions and the created and modified stamps of its source object.
C4_CopyKeepsMetadata ==
    [][(Called("cp") /\ last'.err = OK) =>
          SameMetadata(heap, NodeAt(heap, last'.path), heap', last'.out[1])]_vars

\* a cp of a non-empty Directory made after the clock has advanced
C4_Reached ==
    /\ last.op = "cp"
    /\ last.err = OK
    /\ DOMAIN heap[last.out[1]].children # {}
    /\ heap[last.out[1]].created < now

\* C5: a call of any operation that returns an error leaves every object,
\* every child mapping, name, buffer and time stamp as it was.
C5_FailureAtomicity ==
    [][(last = Idle /\ last' # Idle /\ last'.err # OK) => heap' = heap]_vars

\* a mv has failed after its source had been found
C5_Witness ==
    /\ last.op = "mv"
    /\ last.err = AlreadyExists
    /\ NodeAt(heap, last.path) # NoNode
    /\ now > 0

\* C6: "/" always resolves to the initial root object, which is a Directory
\* and the child of no Directory; rm("/") fails with CannotRemoveRoot and
\* mv("/", d) with CannotMoveRoot.
C6_RootProtected ==
    /\ root = RootId
    /\ NodeAt(heap, RootPath) = RootId
    /\ heap[RootId].type = Directory
    /\ RootId \notin Referenced(heap)
    /\ (last.op = "rm" /\ last.path = RootPath) => last.err = CannotRemoveRoot
    /\ (last.op = "mv" /\ last.path = RootPath) => last.err = CannotMoveRoot

\* rm("/", recursive) has been called on a root that has children
C6_Witness ==
    /\ last.op = "rm"
    /\ last.path = RootPath
    /\ last.arg = TRUE
    /\ DOMAIN heap[RootId].children # {}

\* C7: write(p, c) where the parent of p exists and p is absent or a File
\* succeeds, read(p) then returns exactly c, and nothing else changes but
\* the membership (and the stamp) of the parent when p was absent.
C7_WriteReplaces ==
    [][(Called("write") /\ resolveParent(heap, last'.path).err = OK
                        /\ ~IsDirAt(heap, last'.path)) =>
          LET p == last'.path
              rp == resolveParent(heap, p)
              old == getChild(heap, rp.parent, rp.name)
              new == NodeAt(heap', p)
          IN  /\ last'.err = OK
              /\ read(heap', nextId', p).err = OK
              /\ read(heap', nextId', p).out = last'.arg
              /\ old # NoNode =>
                    /\ new = old
                    /\ DOMAIN heap' = DOMAIN heap
                    /\ \A n \in DOMAIN heap \ {old} : heap'[n] = heap[n]
              /\ old = NoNode =>
                    /\ new \notin DOMAIN heap
                    /\ DOMAIN heap' = DOMAIN heap \cup {new}
                    /\ \A n \in DOMAIN heap \ {rp.parent} : heap'[n] = heap[n]
                    /\ DOMAIN heap'[rp.parent].children = DOMAIN heap[rp.parent].children \cup {rp.name}
                    /\ \A k \in DOMAIN heap[rp.parent].children :
                          heap'[rp.parent].children[k] = heap[rp.parent].children[k]
                    /\ heap'[rp.parent].data = heap[rp.parent].data]_vars

\* a write of "y" has replaced the buffer of a File made earlier
C7_Witness ==
    /\ last.op = "write"
    /\ last.err = OK
    /\ IsFileAt(heap, last.path)
    /\ heap[NodeAt(heap, last.path)].created < heap[NodeAt(heap, last.path)].modified
    /\ heap[NodeAt(heap, last.path)].data = <<"y">>

\* C8: append(p, c) on a File with buffer B leaves B followed by c; on an
\* absent p whose parent exists it leaves what touch(p) then append(p, c)
\* leave, a File at p with buffer c.
C8_AppendConcatenates ==
    [][(Called("append") /\ resolveParent(heap, last'.path).err = OK) =>
          LET p == last'.path
              c == last'.arg
              rp == resolveParent(heap, p)
              old == getChild(heap, rp.parent, rp.name)
              made == touch(heap, nextId, p)
          IN  /\ (old # NoNode /\ heap[old].type = File) =>
                    /\ last'.err = OK
                    /\ read(heap', nextId', p).out = heap[old].data \o c
              /\ old = NoNode =>
                    /\ last'.err = OK
                    /\ IsFileAt(heap', p)
                    /\ read(heap', nextId', p).out = c
                    /\ made.err = OK
                    /\ heap' = Release(append(made.heap, made.nxt, p, c).heap)]_vars

\* an append has put "y" behind the "x" of a File
C8_Witness ==
    /\ last.op = "append"
    /\ last.err = OK
    /\ last.arg = <<"y">>
    /\ IsFileAt(heap, last.path)
    /\ heap[NodeAt(heap, last.path)].data = <<"x", "y">>

\* C9: append on a path that resolves to a Directory (the root included)
\* fails with IsADirectory and changes nothing.
C9_AppendOnDirectoryRefused ==
    [][(Called("append") /\ IsDirAt(heap, last'.path)) =>
          (last'.err = IsADirectory /\ heap' = heap)]_vars

\* a segment of the path other than the last one names a File
FileOnTheWay(h, path) ==
    /\ ~Malformed(path)
    /\ \E k \in 1..(Len(splitPath(path)) - 1) :
          LET t == walkNode(h, SubSeq(splitPath(path), 1, k), 1, root)
          IN  t.err = OK /\ h[t.node].type = File

\* C10: write and append on a path with a File at a non-final segment fail
\* with NotADirectory and change nothing.
C10_NoMaskedNotADirectory ==
    [][(last = Idle /\ last'.op \in {"write", "append"} /\ FileOnTheWay(heap, last'.path)) =>
          (last'.err = NotADirectory /\ heap' = heap)]_vars

\* a write below a File that has content
C10_Witness ==
    /\ last.op = "write"
    /\ FileOnTheWay(heap, last.path)
    /\ \E n \in DOMAIN heap : heap[n].type = File /\ heap[n].data # <<>>

\* the path is well formed and some segment of it, the last one or an
\* earlier one, names no child
Absent(h, path) == traverseNode(h, path).err = NotFound

\* C11 as stated: write(p, c) on a well-formed path that does not resolve
\* because its last segment or one of its ancestors is absent succeeds, and
\* afterwards p is a File with buffer c.
C11_WriteCreatesWhateverIsMissing ==
    [][(Called("write") /\ Absent(heap, last'.path)) =>
          /\ last'.err = OK
          /\ IsFileAt(heap', last'.path)
          /\ heap'[NodeAt(heap', last'.path)].data = last'.arg]_vars

\* C11: write(p, c) on a well-formed path whose ancestors all exist and
\* whose last segment is absent succeeds and leaves a File at p with buffer
\* c; when an ancestor is absent it fails with NotFound and changes nothing.
C11_WriteCreatesLastSegmentOnly ==
    [][(Called("write") /\ Absent(heap, last'.path)) =>
          IF resolveParent(heap, last'.path).err = OK
          THEN /\ last'.err = OK
               /\ IsFileAt(heap', last'.path)
               /\ heap'[NodeAt(heap', last'.path)].data = last'.arg
          ELSE /\ last'.err = NotFound
               /\ heap' = heap]_vars

\* a write two levels down has failed for want of the directory, in a tree
\* where an earlier write had made a File with content
C11_Witness ==
    /\ last.op = "write"
    /\ last.err = NotFound
    /\ Len(splitPath(last.path)) = 2
    /\ resolveParent(heap, last.path).err = NotFound
    /\ \E n \in DOMAIN heap : heap[n].type = File /\ heap[n].data = last.arg

\* every path that resolves in h resolves in g, to the same object
SameNodes(h, g) == \A q \in Paths : NodeAt(h, q) # NoNode => NodeAt(g, q) = NodeAt(h, q)

\* C12: mkdir(p) with a parent chain that resolves: when the parent has a
\* child named like the last segment of p it fails with AlreadyExists and
\* changes nothing; otherwise it succeeds, p resolves to a new Directory of
\* that name with no children and modified >= created, every path that
\* resolved before resolves to the same object, and a second mkdir(p) fails
\* with AlreadyExists.
C12_MkdirContract ==
    [][(Called("mkdir") /\ resolveParent(heap, last'.path).err = OK) =>
          LET p == last'.path
              rp == resolveParent(heap, p)
              dir == NodeAt(heap', p)
          IN  IF hasChild(heap, rp.parent, rp.name)
              THEN /\ last'.err = AlreadyExists
                   /\ heap' = heap
              ELSE /\ last'.err = OK
                   /\ dir # NoNode
                   /\ dir \notin DOMAIN heap
                   /\ heap'[dir].type = Directory
                   /\ heap'[dir].name = rp.name
                   /\ DOMAIN heap'[dir].children = {}
                   /\ heap'[dir].modified >= heap'[dir].created
                   /\ SameNodes(heap, heap')
                   /\ mkdir(heap', nextId', p).err = AlreadyExists]_vars

\* a mkdir two levels down has succeeded after the clock had advanced, in a
\* tree that holds a File as well
C12_Witness ==
    /\ last.op = "mkdir"
    /\ last.err = OK
    /\ Len(splitPath(last.path)) = 2
    /\ IsDirAt(heap, last.path)
    /\ heap[NodeAt(heap, last.path)].created > 0
    /\ \E n \in DOMAIN heap : heap[n].type = File

\* the segments of p are the first segments of q
IsPrefix(p, q) == Len(p) <= Len(q) /\ SubSeq(q, 1, Len(p)) = p

\* C13: rm(p, recursive) on an existing target other than the root: on a
\* Directory with a child and recursive = false it fails with
\* DirectoryNotEmpty and nothing changes; otherwise it succeeds, p and every
\* path below p that resolved before fail with NotFound, the objects of the
\* subtree are gone, and every other path that resolved before resolves to
\* the same object.
C13_RmContract ==
    [][(Called("rm") /\ resolveParent(heap, last'.path).err = OK
                     /\ NodeAt(heap, last'.path) # NoNode) =>
          LET p == last'.path
              node == NodeAt(heap, p)
          IN  IF heap[node].type = Directory /\ DOMAIN heap[node].children # {} /\ ~last'.arg
              THEN /\ last'.err = DirectoryNotEmpty
                   /\ heap' = heap
              ELSE /\ last'.err = OK
                   /\ Subtree(heap, node) \cap DOMAIN heap' = {}
                   /\ \A q \in Paths :
                         NodeAt(heap, q) # NoNode =>
                            IF q # RootPath /\ IsPrefix(splitPath(p), splitPath(q))
                            THEN traverseNode(heap', q).err = NotFound
                            ELSE NodeAt(heap', q) = NodeAt(heap, q)]_vars

\* a recursive rm has succeeded and has left one of the three objects made
\* before it, a File outside the removed subtree
C13_Witness ==
    /\ last.op = "rm"
    /\ last.err = OK
    /\ last.arg = TRUE
    /\ nextId = MaxNodesCopy + 1
    /\ Cardinality(DOMAIN heap) = 2
    /\ \E k \in DOMAIN heap[RootId].children :
          /\ heap[heap[RootId].children[k]].type = File
          /\ k # splitPath(last.path)[1]

\* C14: ls on a Directory returns the names of its children, each once, in
\* ascending order of std::string, whatever the order in which the children
\* came; ls on a File returns the list of that File's name alone, which is
\* the last segment of the path. ls changes nothing.
C14_LsContract ==
    [][(Called("ls") /\ NodeAt(heap, last'.path) # NoNode) =>
          LET n == NodeAt(heap, last'.path)
              out == last'.out
          IN  /\ last'.err = OK
              /\ heap' = heap
              /\ heap[n].type = Directory =>
                    /\ {out[i] : i \in 1..Len(out)} = DOMAIN heap[n].children
                    /\ {out[i] : i \in 1..Len(out)} =
                          {heap[heap[n].children[k]].name : k \in DOMAIN heap[n].children}
                    /\ Len(out) = Cardinality(DOMAIN heap[n].children)
                    /\ \A i, j \in 1..Len(out) : i < j => NameLess(out[i], out[j])
              /\ heap[n].type = File =>
                    /\ out = <<heap[n].name>>
                    /\ out[1] = splitPath(last'.path)[Len(splitPath(last'.path))]]_vars

\* ls has listed "a" before "b" in a Directory whose child "b" was made
\* before its child "a"
C14_Witness ==
    /\ last.op = "ls"
    /\ last.err = OK
    /\ last.out = << <<"a">>, <<"b">> >>
    /\ LET d == NodeAt(heap, last.path)
       IN  heap[d].children[<<"b">>] < heap[d].children[<<"a">>]

\* g has every object of h, with its type, name and buffer and with at
\* least the children it has in h
OnlyAdds(h, g) ==
    /\ DOMAIN h \subseteq DOMAIN g
    /\ \A n \in DOMAIN h :
          /\ g[n].type = h[n].type
          /\ g[n].name = h[n].name
          /\ g[n].data = h[n].data
          /\ DOMAIN h[n].children \subseteq DOMAIN g[n].children
          /\ \A k \in DOMAIN h[n].children : g[n].children[k] = h[n].children[k]

\* C15: cp(src, dest) with a src that resolves and a dest that resolves to a
\* File fails with DestinationExists and leaves that File (and everything
\* else) as it was; a cp that succeeds only adds objects and entries, so
\* every path that resolved before resolves to the same object with the
\* same name, buffer and earlier children.
C15_CopyNeverOverwrites ==
    [][Called("cp") =>
          /\ (NodeAt(heap, last'.path) # NoNode /\ IsFileAt(heap, last'.arg)) =>
                /\ last'.err = DestinationExists
                /\ NodeAt(heap', last'.arg) = NodeAt(heap, last'.arg)
                /\ heap' = heap
          /\ last'.err = OK =>
                /\ OnlyAdds(heap, heap')
                /\ SameNodes(heap, heap')
                /\ DOMAIN heap' # DOMAIN heap]_vars

\* a cp onto a File that has content has failed
C15_Witness ==
    /\ last.op = "cp"
    /\ last.err = DestinationExists
    /\ NodeAt(heap, last.path) # NoNode
    /\ last.path # last.arg
    /\ IsFileAt(heap, last.arg)
    /\ heap[NodeAt(heap, last.arg)].data # <<>>

\* C16: in every reachable state every entry (k -> child) of the children
\* mapping of every Directory object points to a live object whose name is k.
C16_NameIsKey ==
    \A d \in DOMAIN heap :
        \A k \in DOMAIN heap[d].children :
            /\ heap[d].children[k] \in DOMAIN heap
            /\ heap[heap[d].children[k]].name = k

\* a mv has given an object a path with another last segment, and the
\* object has taken that segment as its name
C16_Witness ==
    /\ last.op = "mv"
    /\ last.err = OK
    /\ NodeAt(heap, last.arg) # NoNode
    /\ resolveParent(heap, last.path).err = OK
    /\ resolveParent(heap, last.arg).err = OK
    /\ resolveParent(heap, last.arg).name # resolveParent(heap, last.path).name
    /\ heap[NodeAt(heap, last.arg)].name = resolveParent(heap, last.arg).name

\* C17: in every reachable state every key of every children mapping is a
\* non-empty string without the separator '/'.
C17_KeysWellFormed ==
    \A d \in DOMAIN heap :
        \A k \in DOMAIN heap[d].children :
            /\ k # <<>>
            /\ \A i \in 1..Len(k) : k[i] # Sep

\* the objects a Directory object holds in its children mapping
Children(h, d) == {h[d].children[k] : k \in DOMAIN h[d].children}

\* C18: in every reachable state no live object is reachable from its own
\* children mapping, and no object is held by two Directories or under two
\* keys; in particular a mv never attaches a Directory below itself.
C18_Forest ==
    /\ \A d \in DOMAIN heap : d \notin Below(heap, Children(heap, d), Children(heap, d))
    /\ \A d, e \in DOMAIN heap :
          \A k \in DOMAIN heap[d].children, l \in DOMAIN heap[e].children :
              heap[d].children[k] = heap[e].children[l] => (d = e /\ k = l)

\* C19: a call of append enters append at most twice: once when the path
\* resolves to a File; twice when it does not and touch(path) succeeds, and
\* then the second entry finds the File and the call succeeds; once when
\* touch(path) fails, and then the call fails with the error of touch and
\* changes nothing.
C19_AppendReentersAtMostOnce ==
    [][Called("append") =>
          LET p == last'.path
              made == touch(heap, nextId, p)
          IN  /\ last'.calls \in {1, 2}
              /\ IsFileAt(heap, p) => (last'.calls = 1 /\ last'.err = OK)
              /\ (~IsFileAt(heap, p) /\ made.err = OK) =>
                    /\ last'.calls = 2
                    /\ last'.err = OK
                    /\ IsFileAt(made.heap, p)
                    /\ IsFileAt(heap', p)
              /\ (~IsFileAt(heap, p) /\ made.err # OK) =>
                    /\ last'.calls = 1
                    /\ last'.err = made.err
                    /\ heap' = heap]_vars

\* an append two levels down has made its File and has entered append a
\* second time
C19_Witness ==
    /\ last.op = "append"
    /\ last.err = OK
    /\ last.calls = 2
    /\ Len(splitPath(last.path)) = 2
    /\ IsFileAt(heap, last.path)
    /\ heap[NodeAt(heap, last.path)].data = last.arg

\* the Directory a cp(src, dest) attaches its copy to
AttachPoint(h, dest) ==
    IF IsDirAt(h, dest) THEN NodeAt(h, dest) ELSE resolveParent(h, dest).parent

\* C20: a successful cp(src, dest) of a Directory src whose copy is attached
\* inside the subtree of src (src itself and the root included) attaches a
\* copy made of new objects only, equal by value to the subtree of src as
\* it was before the call, and not reachable from itself.
C20_CopyIsSnapshot ==
    [][(Called("cp") /\ last'.err = OK
                     /\ IsDirAt(heap, last'.path)
                     /\ AttachPoint(heap, last'.arg) \in Subtree(heap, NodeAt(heap, last'.path))) =>
          LET src == NodeAt(heap, last'.path)
              copy == last'.out[1]
          IN  /\ copy \in Children(heap', AttachPoint(heap, last'.arg))
              /\ Subtree(heap', copy) \cap DOMAIN heap = {}
              /\ copy \notin Below(heap', Children(heap', copy), Children(heap', copy))
              /\ TreeValue(heap', copy, {}) = TreeValue(heap, src, {})
              /\ Cardinality(DOMAIN heap') = Cardinality(DOMAIN heap)
                                               + Cardinality(Subtree(heap, src))]_vars

\* a Directory other than the root, with a child, has been copied into
\* itself
C20_Witness ==
    /\ last.op = "cp"
    /\ last.err = OK
    /\ last.path # RootPath
    /\ IsDirAt(heap, last.path)
    /\ last.out[1] \in Subtree(heap, NodeAt(heap, last.path))
    /\ DOMAIN heap[last.out[1]].children # {}
====
